---- MODULE Spec2Model ----
(***************************************************************************)
(* Starship warehouse API (yugoru/qasandbox): the three tables, the        *)
(* request handlers of app/routes.py and the maintenance sweep of          *)
(* app/cleanup.py, each handler one atomic transaction.                    *)
(*                                                                         *)
(* Float columns (capacity, volume, weight) are modelled by integers.      *)
(* Time is counted in hours.                                               *)
(***************************************************************************)
EXTENDS Integers, FiniteSets, Sequences, TLC

\* ------------------------------------------------------------------ bounds
\* shipment rows ever inserted (ids are never reused)
MaxShipments == 2
\* largest stock a cargo row may hold in the model
MaxStock == 3
\* requests and sweeps handled in one behaviour
MaxRequests == 6

\* ------------------------------------------------------- program constants
CLEANUP_HISTORY_DAYS == 1
STUCK_LOADING_HOURS == 1
HoursPerDay == 24

\* ------------------------------------------------------------- enumerations
AVAILABLE == "available"
MAINTENANCE == "maintenance"
IN_FLIGHT == "in_flight"
LOADING == "loading"
COMPLETED == "completed"
CANCELLED == "cancelled"

StarshipStatus == {AVAILABLE, MAINTENANCE, IN_FLIGHT, LOADING}
ShipmentStatus == {LOADING, COMPLETED, CANCELLED}

\* ------------------------------------------------------------ request inputs
\* request bodies of create_starship / update_starship
StarshipBase ==
    {[name |-> "Falcon", capacity |-> 2, volume |-> 4, range |-> 1, status |-> AVAILABLE],
     [name |-> "Enterprise", capacity |-> 4, volume |-> 2, range |-> 2, status |-> AVAILABLE]}
\* request bodies of create_cargo / update_cargo
CargoBase ==
    {[name |-> "Crystals", quantity |-> 2, weight |-> 1, volume |-> 2],
     [name |-> "Torpedoes", quantity |-> 2, weight |-> 2, volume |-> 1]}
\* quantity of a ShipmentCreate body (gt=0)
LoadQuantities == {1, 2}

\* primary keys the sequences hand out
StarshipIds == {1, 2}
CargoIds == {1, 2}
ShipmentIds == 1..MaxShipments

\* the instants (hours) at which requests and sweeps are observed
Clock == {0, 1, 25}

\* ------------------------------------------------------------------- state
VARIABLES
    starships,   \* table starships: id -> row
    cargo,       \* table cargo: id -> row
    shipments,   \* table shipment_history: id -> row
    next_id,     \* the three primary-key sequences
    now,         \* datetime.utcnow(), in hours
    requests,    \* requests and sweeps handled so far
    txn,         \* open sessions of load requests: session -> what it has read
    resp         \* the last request and the handler's outcome

db == <<starships, cargo, shipments, next_id>>
vars == <<starships, cargo, shipments, next_id, now, requests, txn, resp>>

\* ----------------------------------------------------------------- helpers
Remove(f, k) == [i \in DOMAIN f \ {k} |-> f[i]]

RECURSIVE SumOver(_, _)
SumOver(S, f) ==
    IF S = {} THEN 0
    ELSE LET x == CHOOSE y \in S : TRUE IN f[x] + SumOver(S \ {x}, f)

\* rows of shipment_history with starship_id = s and status = loading
current_shipments(s) ==
    {i \in DOMAIN shipments :
        shipments[i].starship_id = s /\ shipments[i].status = LOADING}

current_weight(s) ==
    SumOver(current_shipments(s),
            [i \in DOMAIN shipments |->
                shipments[i].quantity * cargo[shipments[i].cargo_id].weight])

current_volume(s) ==
    SumOver(current_shipments(s),
            [i \in DOMAIN shipments |->
                shipments[i].quantity * cargo[shipments[i].cargo_id].volume])

\* one more request handled; the clock stands still while a handler runs
Handled ==
    /\ requests < MaxRequests
    /\ requests' = requests + 1
    /\ UNCHANGED <<now, txn>>

\* ------------------------------------------------------------------- Init
NoRows == [i \in {} |-> 0]

Init ==
    /\ starships = NoRows
    /\ cargo = NoRows
    /\ shipments = NoRows
    /\ next_id = [starship |-> 1, cargo |-> 1, shipment |-> 1]
    /\ now = 0
    /\ requests = 0
    /\ txn = NoRows
    /\ resp = [op |-> "none", code |-> 0, args |-> [none |-> 0]]

\* --------------------------------------------------------------- load_cargo
\* variant: the starship's status is not looked at
StarshipUnavailable_unchecked(s) == FALSE

StarshipUnavailable(s) == starships[s].status # AVAILABLE

\* variant: the stock check is left out
InsufficientStock_unchecked(c, q) == FALSE

InsufficientStock(c, q) == cargo[c].quantity < q

\* variant: a load that exactly fills the capacity is refused too
CapacityExceeded_at_limit(s, c, q) ==
    current_weight(s) + q * cargo[c].weight >= starships[s].capacity

CapacityExceeded(s, c, q) ==
    current_weight(s) + q * cargo[c].weight > starships[s].capacity

VolumeExceeded(s, c, q) ==
    current_volume(s) + q * cargo[c].volume > starships[s].volume

load_cargo_code(s, c, q) ==
    IF s \notin DOMAIN starships THEN 404
    ELSE IF StarshipUnavailable(s) THEN 400
    ELSE IF c \notin DOMAIN cargo THEN 404
    ELSE IF InsufficientStock(c, q) THEN 400
    ELSE IF CapacityExceeded(s, c, q) THEN 400
    ELSE IF VolumeExceeded(s, c, q) THEN 400
    ELSE 200

\* variant: the row is inserted but the stock is not decremented
load_cargo_commit_keeps_stock(s, c, q) ==
    /\ next_id.shipment \in ShipmentIds
    /\ shipments' = (next_id.shipment :>
                        [starship_id |-> s, cargo_id |-> c, quantity |-> q,
                         status |-> LOADING, created_at |-> now]) @@ shipments
    /\ cargo' = cargo
    /\ starships' = [starships EXCEPT ![s].status = LOADING]
    /\ next_id' = [next_id EXCEPT !.shipment = @ + 1]

\* variant: the starship's status is left as it was
load_cargo_commit_leaves_status(s, c, q) ==
    /\ next_id.shipment \in ShipmentIds
    /\ shipments' = (next_id.shipment :>
                        [starship_id |-> s, cargo_id |-> c, quantity |-> q,
                         status |-> LOADING, created_at |-> now]) @@ shipments
    /\ cargo' = [cargo EXCEPT ![c].quantity = @ - q]
    /\ starships' = starships
    /\ next_id' = [next_id EXCEPT !.shipment = @ + 1]

load_cargo_commit(s, c, q) ==
    /\ next_id.shipment \in ShipmentIds
    /\ shipments' = (next_id.shipment :>
                        [starship_id |-> s, cargo_id |-> c, quantity |-> q,
                         status |-> LOADING, created_at |-> now]) @@ shipments
    /\ cargo' = [cargo EXCEPT ![c].quantity = @ - q]
    /\ starships' = [starships EXCEPT ![s].status = LOADING]
    /\ next_id' = [next_id EXCEPT !.shipment = @ + 1]

load_cargo(s, c, q) ==
    LET code == load_cargo_code(s, c, q) IN
    /\ IF code = 200 THEN load_cargo_commit(s, c, q) ELSE UNCHANGED db
    /\ resp' = [op |-> "load_cargo", code |-> code,
                args |-> [starship_id |-> s, cargo_id |-> c, quantity |-> q]]
    /\ Handled

\* ---------------------------------------------------------- create_starship
StarshipNameTaken(name) == \E i \in DOMAIN starships : starships[i].name = name

create_starship_code(starship) ==
    IF StarshipNameTaken(starship.name) THEN 400 ELSE 201

create_starship(starship) ==
    LET code == create_starship_code(starship) IN
    /\ IF code = 201
       THEN /\ next_id.starship \in StarshipIds
            /\ starships' = (next_id.starship :> starship) @@ starships
            /\ next_id' = [next_id EXCEPT !.starship = @ + 1]
            /\ UNCHANGED <<cargo, shipments>>
       ELSE UNCHANGED db
    /\ resp' = [op |-> "create_starship", code |-> code, args |-> [name |-> starship.name]]
    /\ Handled

\* a shipment_history row references the starship (delete_starship)
\* variant: the history check is left out
StarshipHasHistory_unchecked(s) == FALSE

StarshipHasHistory(s) == \E i \in DOMAIN shipments : shipments[i].starship_id = s

\* ---------------------------------------------------------- update_starship
\* variant: only a loading starship counts as busy
StarshipBusy_loading_only(s) == starships[s].status = LOADING

\* status not in [AVAILABLE, MAINTENANCE]
StarshipBusy(s) == starships[s].status \notin {AVAILABLE, MAINTENANCE}

StarshipRenameConflict(s, name) ==
    name # starships[s].name /\ StarshipNameTaken(name)

\* variant: a starship with shipment history is not editable
update_starship_code_history(s, starship_update) ==
    IF s \notin DOMAIN starships THEN 404
    ELSE IF StarshipBusy(s) THEN 400
    ELSE IF StarshipHasHistory(s) THEN 400
    ELSE IF StarshipRenameConflict(s, starship_update.name) THEN 400
    ELSE 200

update_starship_code(s, starship_update) ==
    IF s \notin DOMAIN starships THEN 404
    ELSE IF StarshipBusy(s) THEN 400
    ELSE IF StarshipRenameConflict(s, starship_update.name) THEN 400
    ELSE 200

update_starship(s, starship_update) ==
    LET code == update_starship_code(s, starship_update) IN
    /\ IF code = 200
       THEN /\ starships' = [starships EXCEPT ![s] = starship_update]
            /\ UNCHANGED <<cargo, shipments, next_id>>
       ELSE UNCHANGED db
    /\ resp' = [op |-> "update_starship", code |-> code,
                args |-> [starship_id |-> s, name |-> starship_update.name]]
    /\ Handled

\* ---------------------------------------------------------- delete_starship
delete_starship_code(s) ==
    IF s \notin DOMAIN starships THEN 404
    ELSE IF StarshipBusy(s) THEN 400
    ELSE IF StarshipHasHistory(s) THEN 400
    ELSE 204

delete_starship(s) ==
    LET code == delete_starship_code(s) IN
    /\ IF code = 204
       THEN /\ starships' = Remove(starships, s)
            /\ UNCHANGED <<cargo, shipments, next_id>>
       ELSE UNCHANGED db
    /\ resp' = [op |-> "delete_starship", code |-> code, args |-> [starship_id |-> s]]
    /\ Handled

\* -------------------------------------------------------------- create_cargo
CargoNameTaken(name) == \E i \in DOMAIN cargo : cargo[i].name = name

create_cargo_code(body) ==
    IF CargoNameTaken(body.name) THEN 400 ELSE 201

create_cargo(body) ==
    LET code == create_cargo_code(body) IN
    /\ IF code = 201
       THEN /\ next_id.cargo \in CargoIds
            /\ cargo' = (next_id.cargo :> body) @@ cargo
            /\ next_id' = [next_id EXCEPT !.cargo = @ + 1]
            /\ UNCHANGED <<starships, shipments>>
       ELSE UNCHANGED db
    /\ resp' = [op |-> "create_cargo", code |-> code, args |-> [name |-> body.name]]
    /\ Handled

\* -------------------------------------------------------------- update_cargo
\* variant: a rename is not checked against the other rows
CargoRenameConflict_unchecked(c, name) == FALSE

CargoRenameConflict(c, name) ==
    name # cargo[c].name /\ CargoNameTaken(name)

update_cargo_code(c, cargo_update) ==
    IF c \notin DOMAIN cargo THEN 404
    ELSE IF CargoRenameConflict(c, cargo_update.name) THEN 400
    ELSE 200

update_cargo(c, cargo_update) ==
    LET code == update_cargo_code(c, cargo_update) IN
    /\ IF code = 200
       THEN /\ cargo' = [cargo EXCEPT ![c] = cargo_update]
            /\ UNCHANGED <<starships, shipments, next_id>>
       ELSE UNCHANGED db
    /\ resp' = [op |-> "update_cargo", code |-> code,
                args |-> [cargo_id |-> c, name |-> cargo_update.name]]
    /\ Handled

\* -------------------------------------------------------------- delete_cargo
CargoHasHistory(c) == \E i \in DOMAIN shipments : shipments[i].cargo_id = c

delete_cargo_code(c) ==
    IF c \notin DOMAIN cargo THEN 404
    ELSE IF CargoHasHistory(c) THEN 400
    ELSE 204

delete_cargo(c) ==
    LET code == delete_cargo_code(c) IN
    /\ IF code = 204
       THEN /\ cargo' = Remove(cargo, c)
            /\ UNCHANGED <<starships, shipments, next_id>>
       ELSE UNCHANGED db
    /\ resp' = [op |-> "delete_cargo", code |-> code, args |-> [cargo_id |-> c]]
    /\ Handled

\* ------------------------------------------------------------ cancel_loading
ShipmentNotLoading(i) == shipments[i].status # LOADING

cancel_loading_code(i) ==
    IF i \notin DOMAIN shipments THEN 404
    ELSE IF ShipmentNotLoading(i) THEN 400
    ELSE IF shipments[i].cargo_id \notin DOMAIN cargo THEN 404
    ELSE IF shipments[i].starship_id \notin DOMAIN starships THEN 404
    ELSE 200

\* the status cancel_loading leaves on the shipment's starship
cancel_loading_starship_status(i) == AVAILABLE

cancel_loading(i) ==
    LET code == cancel_loading_code(i) IN
    /\ IF code = 200
       THEN /\ cargo[shipments[i].cargo_id].quantity + shipments[i].quantity <= MaxStock
            /\ cargo' = [cargo EXCEPT ![shipments[i].cargo_id].quantity =
                                            @ + shipments[i].quantity]
            /\ starships' = [starships EXCEPT ![shipments[i].starship_id].status =
                                            cancel_loading_starship_status(i)]
            /\ shipments' = [shipments EXCEPT ![i].status = CANCELLED]
            /\ UNCHANGED next_id
       ELSE UNCHANGED db
    /\ resp' = [op |-> "cancel_loading", code |-> code, args |-> [shipment_id |-> i]]
    /\ Handled

\* the three tables as a transaction sees or leaves them
Tables == [starships |-> starships, cargo |-> cargo, shipments |-> shipments]

\* the session's pending writes when cancel_loading reaches db.commit()
cancel_loading_pending(i) ==
    [cargo |-> [cargo EXCEPT ![shipments[i].cargo_id].quantity =
                                    @ + shipments[i].quantity],
     starships |-> [starships EXCEPT ![shipments[i].starship_id].status =
                                    cancel_loading_starship_status(i)],
     shipments |-> [shipments EXCEPT ![i].status = CANCELLED]]

\* db.rollback() in the except branches: what the tables hold afterwards
cancel_loading_rollback(before, pending) == before

\* db.commit() raises: except Exception -> rollback, HTTP 500
cancel_loading_failed(i) ==
    /\ cancel_loading_code(i) = 200
    /\ LET visible == cancel_loading_rollback(Tables, cancel_loading_pending(i)) IN
        /\ starships' = visible.starships
        /\ cargo' = visible.cargo
        /\ shipments' = visible.shipments
    /\ UNCHANGED next_id
    /\ resp' = [op |-> "cancel_loading", code |-> 500, args |-> [shipment_id |-> i]]
    /\ Handled

\* -------------------------------------------------------- get_starship_load
\* variant: the remaining room is reported as the totals
get_starship_load_report_totals(s) ==
    [starship_id |-> s,
     current_weight |-> current_weight(s),
     current_volume |-> current_volume(s),
     available_weight |-> starships[s].capacity,
     available_volume |-> starships[s].volume]

\* the numbers of the returned summary
get_starship_load_report(s) ==
    [starship_id |-> s,
     current_weight |-> current_weight(s),
     current_volume |-> current_volume(s),
     available_weight |-> starships[s].capacity - current_weight(s),
     available_volume |-> starships[s].volume - current_volume(s)]

get_starship_load_code(s) ==
    IF s \notin DOMAIN starships THEN 404 ELSE 200

get_starship_load(s) ==
    LET code == get_starship_load_code(s) IN
    /\ resp' = [op |-> "get_starship_load", code |-> code,
                args |-> IF code = 200 THEN get_starship_load_report(s)
                         ELSE [starship_id |-> s]]
    /\ UNCHANGED db
    /\ Handled

\* ---------------------------------------------------- update_starship_status
\* variant: a loading starship is refused whether or not a shipment is loading
HasActiveShipments_status_only(s) == starships[s].status = LOADING

\* status = LOADING and a loading shipment references the starship
HasActiveShipments(s) ==
    starships[s].status = LOADING /\ current_shipments(s) # {}

update_starship_status_code(s, new_status) ==
    IF s \notin DOMAIN starships THEN 404
    ELSE IF HasActiveShipments(s) THEN 400
    ELSE 200

update_starship_status(s, new_status) ==
    LET code == update_starship_status_code(s, new_status) IN
    /\ IF code = 200
       THEN /\ starships' = [starships EXCEPT ![s].status = new_status]
            /\ UNCHANGED <<cargo, shipments, next_id>>
       ELSE UNCHANGED db
    /\ resp' = [op |-> "update_starship_status", code |-> code,
                args |-> [starship_id |-> s, new_status |-> new_status]]
    /\ Handled

\* ---------------------------------------------------- update_shipment_status
\* variant: the other shipments of the starship are not looked at
OtherLoading_ignored(i) == FALSE

\* another loading shipment of the same starship (id != shipment_id)
OtherLoading(i) == current_shipments(shipments[i].starship_id) \ {i} # {}

\* variant: a completed shipment's quantity is returned to stock as well
ReturnedQuantity_on_completion(i, new_status) ==
    IF new_status \in {CANCELLED, COMPLETED} THEN shipments[i].quantity ELSE 0

\* the quantity update_shipment_status returns to stock
ReturnedQuantity(i, new_status) ==
    IF new_status = CANCELLED THEN shipments[i].quantity ELSE 0

\* the status update_shipment_status leaves on the shipment's starship
FreedStatus(i, new_status) ==
    IF new_status \in {CANCELLED, COMPLETED} /\ ~OtherLoading(i)
    THEN AVAILABLE
    ELSE starships[shipments[i].starship_id].status

\* variant: created_at is stamped again on every update of the row
update_shipment_status_row_restamped(i, new_status) ==
    [shipments[i] EXCEPT !.status = new_status, !.created_at = now]

\* the shipment row as update_shipment_status writes it
update_shipment_status_row(i, new_status) ==
    [shipments[i] EXCEPT !.status = new_status]

\* variant: only a loading shipment may change its status
update_shipment_status_code_guarded(i, new_status) ==
    IF i \notin DOMAIN shipments THEN 404
    ELSE IF shipments[i].status # LOADING THEN 400
    ELSE 200

update_shipment_status_code(i, new_status) ==
    IF i \notin DOMAIN shipments THEN 404 ELSE 200

update_shipment_status(i, new_status) ==
    LET code == update_shipment_status_code(i, new_status) IN
    /\ IF code = 200
       THEN /\ cargo[shipments[i].cargo_id].quantity + ReturnedQuantity(i, new_status)
                   <= MaxStock
            /\ cargo' = [cargo EXCEPT ![shipments[i].cargo_id].quantity =
                                            @ + ReturnedQuantity(i, new_status)]
            /\ starships' = [starships EXCEPT ![shipments[i].starship_id].status =
                                            FreedStatus(i, new_status)]
            /\ shipments' = [shipments EXCEPT ![i] = update_shipment_status_row(i, new_status)]
            /\ UNCHANGED next_id
       ELSE UNCHANGED db
    /\ resp' = [op |-> "update_shipment_status", code |-> code,
                args |-> [shipment_id |-> i, new_status |-> new_status]]
    /\ Handled

\* ---------------------------------------------------------- cleanup_old_data
days_ago == now - CLEANUP_HISTORY_DAYS * HoursPerDay
hours_ago == now - STUCK_LOADING_HOURS

\* variant: rows older than hours_ago are deleted
OldShipments_hours_ago == {i \in DOMAIN shipments : shipments[i].created_at < hours_ago}

\* rows the sweep deletes: created_at < days_ago
OldShipments == {i \in DOMAIN shipments : shipments[i].created_at < days_ago}

\* order_by(created_at.desc()).first() over the rows `kept` of starship s
LatestShipments(kept, s) ==
    LET mine == {i \in kept : shipments[i].starship_id = s} IN
    {i \in mine : \A j \in mine : shipments[j].created_at <= shipments[i].created_at}

\* variant: the latest shipment is compared with days_ago
Stuck_days_ago(kept, s) ==
    /\ starships[s].status = LOADING
    /\ \E i \in LatestShipments(kept, s) : shipments[i].created_at < days_ago

\* variant: the latest shipment is looked up among the rows before the delete
Stuck_before_delete(kept, s) ==
    /\ starships[s].status = LOADING
    /\ \E i \in LatestShipments(DOMAIN shipments, s) : shipments[i].created_at < hours_ago

\* the starship is loading and its latest kept shipment is older than hours_ago
Stuck(kept, s) ==
    /\ starships[s].status = LOADING
    /\ \E i \in LatestShipments(kept, s) : shipments[i].created_at < hours_ago

cleanup_old_data ==
    LET kept == DOMAIN shipments \ OldShipments IN
    /\ shipments' = [i \in kept |-> shipments[i]]
    /\ starships' = [s \in DOMAIN starships |->
                        IF Stuck(kept, s)
                        THEN [starships[s] EXCEPT !.status = AVAILABLE]
                        ELSE starships[s]]
    /\ UNCHANGED <<cargo, next_id>>
    /\ resp' = [op |-> "cleanup_old_data", code |-> 0, args |-> [none |-> 0]]
    /\ Handled

\* the statements of the sweep, in order, at which an exception can be raised
SweepStages == {"delete", "free", "commit"}

\* the session's pending writes when the sweep fails at `stage`
cleanup_pending(stage) ==
    LET kept == DOMAIN shipments \ OldShipments IN
    [cargo |-> cargo,
     shipments |-> IF stage = "delete" THEN shipments
                   ELSE [i \in kept |-> shipments[i]],
     starships |-> IF stage \in {"delete", "free"} THEN starships
                   ELSE [s \in DOMAIN starships |->
                            IF Stuck(kept, s)
                            THEN [starships[s] EXCEPT !.status = AVAILABLE]
                            ELSE starships[s]]]

\* variant: the bulk delete is committed on its own before the starships are freed
cleanup_rollback_after_delete(before, pending) ==
    [before EXCEPT !.shipments = pending.shipments]

\* except Exception: db.rollback(); raise -- what the tables hold afterwards
cleanup_rollback(before, pending) == before

\* a statement of the sweep raises: the error is logged and re-raised
cleanup_old_data_failed(stage) ==
    /\ LET visible == cleanup_rollback(Tables, cleanup_pending(stage)) IN
        /\ starships' = visible.starships
        /\ cargo' = visible.cargo
        /\ shipments' = visible.shipments
    /\ UNCHANGED next_id
    /\ resp' = [op |-> "cleanup_old_data", code |-> 500, args |-> [none |-> 0]]
    /\ Handled

\* ----------------------------------------------------------- response model
\* the columns of a shipment_history row, which the shipment handlers return
ShipmentHistoryColumns ==
    {"id", "starship_id", "cargo_id", "quantity", "status", "created_at"}

\* the required fields of the response model declared for those handlers
ShipmentResponseFields ==
    {"id", "starship_id", "starship_name", "cargo_id", "cargo_name",
     "quantity", "status", "created_at"}

ShipmentHandlers == {"load_cargo", "cancel_loading", "update_shipment_status"}

\* the framework validates the returned row against the response model after
\* the handler has committed; a missing required field raises, and the
\* catch-all exception handler answers 500
serialize_response(op, code) ==
    IF /\ op \in ShipmentHandlers
       /\ code = 200
       /\ ~(ShipmentResponseFields \subseteq ShipmentHistoryColumns)
    THEN 500
    ELSE code

\* ------------------------------------------------------------------- clock
Tick(t) ==
    /\ t > now
    /\ now' = t
    /\ UNCHANGED <<requests, txn>>
    /\ resp' = [op |-> "none", code |-> 0, args |-> [none |-> 0]]
    /\ UNCHANGED db

\* -------------------------------------------------------------------- Next
Next ==
    \/ \E s \in StarshipIds, c \in CargoIds, q \in LoadQuantities : load_cargo(s, c, q)
    \/ \E b \in StarshipBase : create_starship(b)
    \/ \E s \in StarshipIds, b \in StarshipBase : update_starship(s, b)
    \/ \E s \in StarshipIds : delete_starship(s)
    \/ \E b \in CargoBase : create_cargo(b)
    \/ \E c \in CargoIds, b \in CargoBase : update_cargo(c, b)
    \/ \E c \in CargoIds : delete_cargo(c)
    \/ \E i \in ShipmentIds : cancel_loading(i)
    \/ \E s \in StarshipIds, st \in StarshipStatus : update_starship_status(s, st)
    \/ \E i \in ShipmentIds, st \in ShipmentStatus : update_shipment_status(i, st)
    \/ \E i \in ShipmentIds : cancel_loading_failed(i)
    \/ \E s \in StarshipIds : get_starship_load(s)
    \/ cleanup_old_data
    \/ \E stage \in SweepStages : cleanup_old_data_failed(stage)
    \/ \E t \in Clock : Tick(t)

Spec == Init /\ [][Next]_vars

\* ------------------------------------------------- two load requests at once
\* Each request runs on its own session (get_db); nothing in load_cargo locks a
\* row, so the reads of one request and the commit of another interleave.
Sessions == {1, 2}

\* the queries of load_cargo up to the last check, on the committed rows
load_cargo_read(t, s, c, q) ==
    LET code == load_cargo_code(s, c, q) IN
    /\ t \notin DOMAIN txn
    /\ requests < MaxRequests
    /\ requests' = requests + 1
    /\ txn' = IF code = 200
              THEN (t :> [starship_id |-> s, cargo_id |-> c, quantity |-> q,
                          stock |-> cargo[c].quantity]) @@ txn
              ELSE txn
    /\ resp' = [op |-> IF code = 200 THEN "load_cargo_read" ELSE "load_cargo",
                code |-> code,
                args |-> [starship_id |-> s, cargo_id |-> c, quantity |-> q]]
    /\ UNCHANGED <<db, now>>

\* variant: the commit re-reads the starship under a row lock
load_cargo_flush_code_locked(t) ==
    IF starships[txn[t].starship_id].status # AVAILABLE THEN 400 ELSE 200

\* the flush checks nothing again
load_cargo_flush_code(t) == 200

\* variant: the decrement is applied to the stored quantity at commit
load_cargo_flush_quantity_in_place(t) ==
    cargo[txn[t].cargo_id].quantity - txn[t].quantity

\* cargo.quantity -= quantity, computed on the value the session has read
load_cargo_flush_quantity(t) == txn[t].stock - txn[t].quantity

\* db.add, db.commit: the session writes the values it computed from its reads
load_cargo_flush(t) ==
    LET r == txn[t]
        code == load_cargo_flush_code(t) IN
    /\ t \in DOMAIN txn
    /\ IF code = 200
       THEN /\ next_id.shipment \in ShipmentIds
            /\ shipments' = (next_id.shipment :>
                        [starship_id |-> r.starship_id, cargo_id |-> r.cargo_id,
                         quantity |-> r.quantity, status |-> LOADING,
                         created_at |-> now]) @@ shipments
            /\ cargo' = [cargo EXCEPT ![r.cargo_id].quantity = load_cargo_flush_quantity(t)]
            /\ starships' = [starships EXCEPT ![r.starship_id].status = LOADING]
            /\ next_id' = [next_id EXCEPT !.shipment = @ + 1]
       ELSE UNCHANGED db
    /\ txn' = Remove(txn, t)
    /\ resp' = [op |-> "load_cargo", code |-> code,
                args |-> [starship_id |-> r.starship_id, cargo_id |-> r.cargo_id,
                          quantity |-> r.quantity]]
    /\ UNCHANGED <<now, requests>>

NextRace ==
    \/ \E b \in StarshipBase : create_starship(b)
    \/ \E b \in CargoBase : create_cargo(b)
    \/ \E t \in Sessions, s \in StarshipIds, c \in CargoIds, q \in LoadQuantities :
            load_cargo_read(t, s, c, q)
    \/ \E t \in Sessions : load_cargo_flush(t)

SpecRace == Init /\ [][NextRace]_vars

\* ------------------------------------------- the shipment operations alone
\* Stored states to start from: both starships and both cargo rows exist, the
\* starships in any status, and the shipment table holds any rows.
StoredStarships ==
    {[s \in StarshipIds |-> [b[s] EXCEPT !.status = st[s]]] :
        b \in {f \in [StarshipIds -> StarshipBase] :
                    f[1].name = "Falcon" /\ f[2].name = "Enterprise"},
        st \in [StarshipIds -> StarshipStatus]}

StoredCargo ==
    {[c \in CargoIds |-> [b[c] EXCEPT !.quantity = 1]] :
        b \in {f \in [CargoIds -> CargoBase] : f[1].name = "Crystals" /\ f[2].name = "Torpedoes"}}

StoredShipmentRows ==
    [starship_id : StarshipIds, cargo_id : {1}, quantity : {1},
     status : ShipmentStatus, created_at : {0}]

\* a starship has status loading iff a loading shipment references it
LoadingIffShipment ==
    \A s \in DOMAIN starships :
        starships[s].status = LOADING <=> current_shipments(s) # {}

InitStored ==
    /\ starships \in StoredStarships
    /\ cargo \in StoredCargo
    /\ \E n \in 0..MaxShipments :
        /\ shipments \in [1..n -> StoredShipmentRows]
        /\ next_id = [starship |-> 3, cargo |-> 3, shipment |-> n + 1]
    /\ LoadingIffShipment
    /\ now = 0
    /\ requests = 0
    /\ txn = NoRows
    /\ resp = [op |-> "none", code |-> 0, args |-> [none |-> 0]]

NextShipments ==
    \/ \E s \in StarshipIds, c \in CargoIds, q \in LoadQuantities : load_cargo(s, c, q)
    \/ \E i \in ShipmentIds : cancel_loading(i)
    \/ \E i \in ShipmentIds, st \in {COMPLETED, CANCELLED} : update_shipment_status(i, st)

SpecShipments == InitStored /\ [][NextShipments]_vars
\* ========================================================== claim vocabulary
\* What the properties below read off a state, written without the handlers'
\* own helpers.
Exists(table, k) == k \in DOMAIN table

LoadingOf(s) ==
    {i \in DOMAIN shipments :
        shipments[i].starship_id = s /\ shipments[i].status = "loading"}

InFlightWeight(s) ==
    SumOver(LoadingOf(s), [i \in DOMAIN shipments |->
        shipments[i].quantity * cargo[shipments[i].cargo_id].weight])

InFlightVolume(s) ==
    SumOver(LoadingOf(s), [i \in DOMAIN shipments |->
        shipments[i].quantity * cargo[shipments[i].cargo_id].volume])

HistoryOfStarship(s) == {i \in DOMAIN shipments : shipments[i].starship_id = s}
HistoryOfCargo(c) == {i \in DOMAIN shipments : shipments[i].cargo_id = c}

Did(op, code) == resp.op = op /\ resp.code = code

\* -------------------------------------------------------------------- C1
\* C1: in every reachable state, for every starship the weight of its loading
\* shipments is at most its capacity and their volume at most its volume.
C1_InFlightWithinLimits ==
    \A s \in DOMAIN starships :
        /\ InFlightWeight(s) <= starships[s].capacity
        /\ InFlightVolume(s) <= starships[s].volume

\* -------------------------------------------------------------------- C2
\* C2: in every reachable state every cargo row has quantity >= 0.
C2_QuantityNonNegative == \A c \in DOMAIN cargo : cargo[c].quantity >= 0

\* a load has just taken the last units of a cargo row
C2_Witness ==
    /\ Did("load_cargo", 200)
    /\ cargo[resp.args.cargo_id].quantity = 0

\* -------------------------------------------------------------------- C3
\* C3: a successful load leaves cargo.quantity = old quantity - requested,
\* the starship loading, and exactly one new shipment row carrying the
\* request's starship_id, cargo_id and quantity with status loading.
C3_Step ==
    (resp'.op = "load_cargo" /\ resp'.code = 200) =>
        LET a == resp'.args IN
        /\ cargo'[a.cargo_id].quantity = cargo[a.cargo_id].quantity - a.quantity
        /\ starships'[a.starship_id].status = "loading"
        /\ \E i \in DOMAIN shipments' \ DOMAIN shipments :
            /\ DOMAIN shipments' = DOMAIN shipments \cup {i}
            /\ shipments'[i].starship_id = a.starship_id
            /\ shipments'[i].cargo_id = a.cargo_id
            /\ shipments'[i].quantity = a.quantity
            /\ shipments'[i].status = "loading"
        /\ \A j \in DOMAIN shipments : shipments'[j] = shipments[j]

C3_LoadEffect == [][C3_Step]_vars

\* a load has succeeded and its row is in the table
C3_Witness ==
    /\ Did("load_cargo", 200)
    /\ \E i \in DOMAIN shipments :
        /\ shipments[i].starship_id = resp.args.starship_id
        /\ shipments[i].status = "loading"

\* -------------------------------------------------------------------- C4
\* the request of this step cancels shipment i, which is loading before it
CancelRequest(i) ==
    /\ \/ resp'.op = "cancel_loading"
       \/ resp'.op = "update_shipment_status" /\ resp'.args.new_status = "cancelled"
    /\ resp'.args.shipment_id = i

\* C4: cancelling a loading shipment by either handler restores the cargo
\* quantity exactly and sets the starship available if no other loading
\* shipment of that starship remains, and leaves its status alone otherwise.
C4_Step ==
    \A i \in DOMAIN shipments :
        (CancelRequest(i) /\ shipments[i].status = "loading") =>
            LET s == shipments[i].starship_id
                c == shipments[i].cargo_id IN
            /\ cargo'[c].quantity = cargo[c].quantity + shipments[i].quantity
            /\ IF LoadingOf(s) \ {i} = {}
               THEN starships'[s].status = "available"
               ELSE starships'[s].status = starships[s].status

C4_CancelFreesIffLast == [][C4_Step]_vars

\* -------------------------------------------------------------------- C5
\* C5: cancelling a shipment that is completed or cancelled, by either
\* handler, is rejected and leaves every row as it was.
C5_Step ==
    \A i \in DOMAIN shipments :
        (CancelRequest(i) /\ shipments[i].status \in {"completed", "cancelled"}) =>
            /\ resp'.code = 400
            /\ UNCHANGED db

C5_OnlyLoadingCancelled == [][C5_Step]_vars

\* -------------------------------------------------------------------- C6
\* C6: deleting a starship or a cargo row that any shipment row references
\* fails with a conflict and leaves all three tables as they were.
C6_Step ==
    /\ (/\ resp'.op = "delete_starship"
        /\ Exists(starships, resp'.args.starship_id)
        /\ HistoryOfStarship(resp'.args.starship_id) # {})
       => (resp'.code = 400 /\ UNCHANGED db)
    /\ (/\ resp'.op = "delete_cargo"
        /\ Exists(cargo, resp'.args.cargo_id)
        /\ HistoryOfCargo(resp'.args.cargo_id) # {})
       => (resp'.code = 400 /\ UNCHANGED db)

C6_DeleteReferencedFails == [][C6_Step]_vars

\* a delete of an idle starship was refused because of its history
C6_Witness ==
    /\ Did("delete_starship", 400)
    /\ Exists(starships, resp.args.starship_id)
    /\ starships[resp.args.starship_id].status \in {"available", "maintenance"}
    /\ HistoryOfStarship(resp.args.starship_id) # {}

\* -------------------------------------------------------------------- C7
\* C7: update_starship and delete_starship on a starship whose status is
\* loading or in_flight are rejected and change nothing.
C7_Step ==
    (/\ resp'.op \in {"update_starship", "delete_starship"}
     /\ Exists(starships, resp'.args.starship_id)
     /\ starships[resp'.args.starship_id].status \in {"loading", "in_flight"})
    => (resp'.code = 400 /\ UNCHANGED db)

C7_BusyStarshipFrozen == [][C7_Step]_vars

\* an update of a starship in flight that has no history was refused
C7_Witness ==
    /\ Did("update_starship", 400)
    /\ Exists(starships, resp.args.starship_id)
    /\ starships[resp.args.starship_id].status = "in_flight"
    /\ starships[resp.args.starship_id].name = resp.args.name
    /\ HistoryOfStarship(resp.args.starship_id) = {}

\* -------------------------------------------------------------------- C8
\* the name asked for belongs to another starship
NameOfAnotherStarship(s, name) ==
    \E o \in DOMAIN starships \ {s} : starships[o].name = name

\* C8 as claimed: update_starship on a starship with shipment history is
\* rejected and leaves the row unchanged.
C8_StepClaimed ==
    (/\ resp'.op = "update_starship"
     /\ Exists(starships, resp'.args.starship_id)
     /\ HistoryOfStarship(resp'.args.starship_id) # {})
    => (resp'.code = 400 /\ UNCHANGED db)

C8_HistoryBlocksEdit == [][C8_StepClaimed]_vars

\* C8 as amended: update_starship on a starship with shipment history is
\* rejected, leaving every row unchanged, exactly when its status is loading
\* or in_flight or the new name belongs to another starship; otherwise the
\* update is applied.
C8_Step ==
    (/\ resp'.op = "update_starship"
     /\ Exists(starships, resp'.args.starship_id)
     /\ HistoryOfStarship(resp'.args.starship_id) # {})
    => LET s == resp'.args.starship_id IN
       IF \/ starships[s].status \in {"loading", "in_flight"}
          \/ NameOfAnotherStarship(s, resp'.args.name)
       THEN resp'.code = 400 /\ UNCHANGED db
       ELSE /\ resp'.code = 200
            /\ starships'[s].name = resp'.args.name
            /\ starships'[s] \in StarshipBase

C8_HistoryDoesNotBlockEdit == [][C8_Step]_vars

\* a starship with history has just been renamed
C8_Witness ==
    /\ Did("update_starship", 200)
    /\ HistoryOfStarship(resp.args.starship_id) # {}
    /\ starships[resp.args.starship_id].name = "Enterprise"
    /\ next_id.starship = 2

\* -------------------------------------------------------------------- C9
UniqueNames(table) ==
    \A i, j \in DOMAIN table : table[i].name = table[j].name => i = j

C9_Step ==
    /\ (resp'.op = "create_starship"
        /\ \E o \in DOMAIN starships : starships[o].name = resp'.args.name)
       => (resp'.code = 400 /\ UNCHANGED db)
    /\ (resp'.op = "create_cargo"
        /\ \E o \in DOMAIN cargo : cargo[o].name = resp'.args.name)
       => (resp'.code = 400 /\ UNCHANGED db)
    /\ (resp'.op = "update_starship"
        /\ Exists(starships, resp'.args.starship_id)
        /\ NameOfAnotherStarship(resp'.args.starship_id, resp'.args.name))
       => (resp'.code = 400 /\ UNCHANGED db)
    /\ (resp'.op = "update_cargo"
        /\ Exists(cargo, resp'.args.cargo_id)
        /\ \E o \in DOMAIN cargo \ {resp'.args.cargo_id} :
                cargo[o].name = resp'.args.name)
       => (resp'.code = 400 /\ UNCHANGED db)

\* C9: a create with the name of an existing row, or an update to the name
\* of another row, fails with a conflict and changes nothing; and in every
\* reachable state no two starships and no two cargo rows share a name.
C9_NamesStayUnique ==
    /\ [](UniqueNames(starships) /\ UniqueNames(cargo))
    /\ [][C9_Step]_vars

\* a cargo row was refused the name of the other cargo row
C9_Witness ==
    /\ Did("update_cargo", 400)
    /\ Exists(cargo, resp.args.cargo_id)
    /\ \E o \in DOMAIN cargo \ {resp.args.cargo_id} : cargo[o].name = resp.args.name

\* ------------------------------------------------------------------- C10
RetentionThreshold == now - CLEANUP_HISTORY_DAYS * HoursPerDay
StalenessThreshold == now - STUCK_LOADING_HOURS

\* the most recent shipment rows of starship s
MostRecent(s) ==
    {i \in HistoryOfStarship(s) :
        \A j \in HistoryOfStarship(s) :
            shipments[j].created_at <= shipments[i].created_at}

\* C10: right after a successful sweep no shipment row is older than the retention
\* threshold, and no starship is loading while its most recent shipment row
\* is older than the staleness threshold.
C10_AfterSweep ==
    (resp.op = "cleanup_old_data" /\ resp.code = 0) =>
        /\ \A i \in DOMAIN shipments : ~(shipments[i].created_at < RetentionThreshold)
        /\ \A s \in DOMAIN starships :
            starships[s].status = "loading" =>
                \A i \in MostRecent(s) : ~(shipments[i].created_at < StalenessThreshold)

\* a sweep has deleted an old row and released a starship whose latest
\* shipment is stale and still loading
C10_Witness ==
    /\ resp.op = "cleanup_old_data"
    /\ resp.code = 0
    /\ Cardinality(DOMAIN shipments) < next_id.shipment - 1
    /\ \E s \in DOMAIN starships :
        /\ starships[s].status = "available"
        /\ \E i \in MostRecent(s) :
            /\ shipments[i].status = "loading"
            /\ shipments[i].created_at < StalenessThreshold

\* ------------------------------------------------------------------- C11
\* the status the client receives for the last request
ClientStatus(r) == serialize_response(r.op, r.code)

\* C11: a request that ends in an error (404, 400 or 500) leaves the three
\* tables and the key sequences exactly as they were.
C11_Step ==
    (/\ resp'.op \notin {"none", "cleanup_old_data"}
     /\ ClientStatus(resp') \in {400, 404, 500})
        => UNCHANGED db

C11_ErrorsChangeNothing == [][C11_Step]_vars

\* ------------------------------------------------------------------- C12
\* C12: a sweep that fails at any statement leaves no deleted row and no
\* released starship behind: the tables are as before the sweep.
C12_Step ==
    (resp'.op = "cleanup_old_data" /\ resp'.code = 500) => UNCHANGED db

C12_FailedSweepChangesNothing == [][C12_Step]_vars

\* a sweep failed while an old row and a stuck starship were there to be swept
C12_Witness ==
    /\ Did("cleanup_old_data", 500)
    /\ \E i \in DOMAIN shipments : shipments[i].created_at < RetentionThreshold
    /\ \E s \in DOMAIN starships :
        /\ starships[s].status = "loading"
        /\ \E i \in MostRecent(s) : shipments[i].created_at < StalenessThreshold

\* ------------------------------------------------------------------- C13
\* C13: with two load requests in flight, the commit of a request that read the
\* starship as available always succeeds and adds its loading shipment, also
\* when the other request has meanwhile committed its own load on that starship.
C13_Step ==
    \A t \in DOMAIN txn :
        t \notin DOMAIN txn' =>
            /\ resp'.op = "load_cargo" /\ resp'.code = 200
            /\ \E i \in DOMAIN shipments' \ DOMAIN shipments :
                /\ shipments'[i].starship_id = txn[t].starship_id
                /\ shipments'[i].quantity = txn[t].quantity
                /\ shipments'[i].status = "loading"
            /\ starships'[txn[t].starship_id].status = "loading"

C13_InterleavedLoadsBothSucceed == [][C13_Step]_vars

\* two loading shipments on one starship, together beyond its capacity or volume
C13_Witness ==
    \E s \in DOMAIN starships :
        /\ Cardinality(LoadingOf(s)) = 2
        /\ \/ InFlightWeight(s) > starships[s].capacity
           \/ InFlightVolume(s) > starships[s].volume

\* ------------------------------------------------------------------- C14
\* C14: a load that names a starship or a cargo that does not exist is answered
\* 404, also when the starship exists but is not available.
C14_Step ==
    resp'.op = "load_cargo" =>
        LET a == resp'.args IN
        (~Exists(starships, a.starship_id) \/ ~Exists(cargo, a.cargo_id))
            => resp'.code = 404

C14_AbsentRowIsNotFound == [][C14_Step]_vars

\* ------------------------------------------------------------------- C15
\* C15: a load on existing rows is answered 400 and changes nothing when the
\* loading weight plus quantity x weight exceeds the capacity, or the loading
\* volume plus quantity x volume exceeds the volume, or the stock is below the
\* quantity; on an available starship a load within all three limits, equality
\* included, is accepted.
C15_Step ==
    LET a == resp'.args IN
    (/\ resp'.op = "load_cargo"
     /\ Exists(starships, a.starship_id)
     /\ Exists(cargo, a.cargo_id)) =>
        LET s == a.starship_id
            c == a.cargo_id
            excess ==
                \/ InFlightWeight(s) + a.quantity * cargo[c].weight > starships[s].capacity
                \/ InFlightVolume(s) + a.quantity * cargo[c].volume > starships[s].volume
                \/ cargo[c].quantity < a.quantity
        IN  /\ excess => (resp'.code = 400 /\ UNCHANGED db)
            /\ (~excess /\ starships[s].status = "available") => resp'.code = 200

C15_LimitsEnforced == [][C15_Step]_vars

\* an accepted load that fills the starship's capacity and volume exactly
C15_Witness ==
    /\ Did("load_cargo", 200)
    /\ InFlightWeight(resp.args.starship_id) = starships[resp.args.starship_id].capacity
    /\ InFlightVolume(resp.args.starship_id) = starships[resp.args.starship_id].volume

\* ------------------------------------------------------------------- C16
\* C16: update_shipment_status(completed) on a loading shipment leaves every
\* cargo quantity as it was, sets that shipment to completed and nothing else
\* in the table, and sets the starship to available when no other loading
\* shipment references it, leaving its status alone otherwise.
C16_Step ==
    LET a == resp'.args IN
    (/\ resp'.op = "update_shipment_status"
     /\ a.new_status = "completed"
     /\ Exists(shipments, a.shipment_id)
     /\ shipments[a.shipment_id].status = "loading") =>
        LET i == a.shipment_id
            s == shipments[i].starship_id
        IN  /\ resp'.code = 200
            /\ cargo' = cargo
            /\ shipments' = [shipments EXCEPT ![i].status = "completed"]
            /\ starships' = [starships EXCEPT ![s].status =
                                IF LoadingOf(s) \ {i} = {} THEN "available" ELSE @]

C16_CompleteEffect == [][C16_Step]_vars

\* the fourth request (after one create_starship, one create_cargo and one
\* load) completed the loading shipment: its starship is free, the stock is
\* still reduced
C16_Witness ==
    /\ Did("update_shipment_status", 200)
    /\ resp.args.new_status = "completed"
    /\ requests = 4
    /\ shipments[resp.args.shipment_id].status = "completed"
    /\ starships[shipments[resp.args.shipment_id].starship_id].status = "available"
    /\ cargo[shipments[resp.args.shipment_id].cargo_id].quantity < 2

\* ------------------------------------------------------------------- C17
\* C17: no step changes the starship_id, cargo_id, quantity or created_at of
\* an existing shipment row, and a row leaves the table only in a successful
\* sweep.
C17_Step ==
    \A i \in DOMAIN shipments :
        IF i \in DOMAIN shipments'
        THEN /\ shipments'[i].starship_id = shipments[i].starship_id
             /\ shipments'[i].cargo_id = shipments[i].cargo_id
             /\ shipments'[i].quantity = shipments[i].quantity
             /\ shipments'[i].created_at = shipments[i].created_at
        ELSE resp'.op = "cleanup_old_data" /\ resp'.code = 0

C17_ShipmentRowImmutable == [][C17_Step]_vars

\* a sweep has taken one row away and left a newer one in the table
C17_Witness ==
    /\ Did("cleanup_old_data", 0)
    /\ \E j \in 1..(next_id.shipment - 1) : j \notin DOMAIN shipments
    /\ \E i \in DOMAIN shipments : shipments[i].created_at < now

\* ------------------------------------------------------------------- C18
\* C18: get_starship_load changes no row, and for an existing starship it
\* answers with the weight and volume of that starship's loading shipments and
\* with capacity minus that weight and volume minus that volume.
C18_Step ==
    resp'.op = "get_starship_load" =>
        LET s == resp'.args.starship_id IN
        /\ UNCHANGED db
        /\ Exists(starships, s) =>
            /\ resp'.code = 200
            /\ resp'.args.current_weight = InFlightWeight(s)
            /\ resp'.args.current_volume = InFlightVolume(s)
            /\ resp'.args.available_weight = starships[s].capacity - InFlightWeight(s)
            /\ resp'.args.available_volume = starships[s].volume - InFlightVolume(s)

C18_LoadReport == [][C18_Step]_vars

\* the summary of a starship that carries a loading shipment
C18_Witness ==
    /\ Did("get_starship_load", 200)
    /\ LoadingOf(resp.args.starship_id) # {}
    /\ resp.args.current_weight > 0
    /\ resp.args.available_weight < starships[resp.args.starship_id].capacity

\* ------------------------------------------------------------------- C19
\* C19: a load on a starship whose status is not available is answered 400 and
\* changes nothing; an accepted load leaves its starship loading; and a loading
\* starship becomes available only in a cancel, a shipment status update, a
\* starship status update or a sweep.
C19_Step ==
    /\ resp'.op = "load_cargo" =>
        LET s == resp'.args.starship_id IN
        /\ (Exists(starships, s) /\ starships[s].status # "available") =>
                (resp'.code = 400 /\ UNCHANGED db)
        /\ resp'.code = 200 => starships'[s].status = "loading"
    /\ \A x \in DOMAIN starships :
        (/\ x \in DOMAIN starships'
         /\ starships[x].status = "loading"
         /\ starships'[x].status = "available") =>
            resp'.op \in {"cancel_loading", "update_shipment_status",
                          "update_starship_status", "cleanup_old_data"}

C20_Step ==
    LET a == resp'.args IN
    (resp'.op = "update_starship_status" /\ Exists(starships, a.starship_id)) =>
        LET s == a.starship_id IN
        IF starships[s].status = "loading" /\ LoadingOf(s) # {}
        THEN resp'.code = 400 /\ UNCHANGED db
        ELSE /\ resp'.code = 200
             /\ starships' = [starships EXCEPT ![s].status = a.new_status]
             /\ UNCHANGED <<cargo, shipments, next_id>>

C20_StatusUpdateGuard == [][C20_Step]_vars

\* a starship that is not available and has no loading shipment was set to loading
C20_Witness ==
    /\ Did("update_starship_status", 200)
    /\ resp.args.new_status = "loading"
    /\ starships[resp.args.starship_id].status = "loading"
    /\ LoadingOf(resp.args.starship_id) = {}
    /\ HistoryOfStarship(resp.args.starship_id) # {}

\* ------------------------------------------------------------------- C21
AtMostOneLoading == \A s \in DOMAIN starships : Cardinality(LoadingOf(s)) <= 1

LoadingIffOneShipment ==
    \A s \in DOMAIN starships :
        starships[s].status = "loading" <=> Cardinality(LoadingOf(s)) = 1

\* C21: started where a starship is loading iff it has a loading shipment and
\* run with load, cancel_loading and update_shipment_status(completed or
\* cancelled) only, every state has at most one loading shipment per starship,
\* and a starship is loading iff it has exactly one.
C21_OneLoadingPerStarship == AtMostOneLoading /\ LoadingIffOneShipment

\* C21 (amended): if in addition no starship has more than one loading
\* shipment, each of those operations keeps it so.
C21_Step ==
    (AtMostOneLoading /\ LoadingIffOneShipment)
        => (AtMostOneLoading' /\ LoadingIffOneShipment')

C21_OneLoadingPreserved == [][C21_Step]_vars

\* a load was accepted on a starship that had history, which is now loading
\* with that one loading shipment
C21_Witness ==
    /\ Did("load_cargo", 200)
    /\ AtMostOneLoading /\ LoadingIffOneShipment
    /\ Cardinality(LoadingOf(resp.args.starship_id)) = 1
    /\ Cardinality(HistoryOfStarship(resp.args.starship_id)) = 2

\* ------------------------------------------------------------------- C22
\* units of cargo c in stock or on a loading shipment, in the tables tc and ts
StockAndLoading(tc, ts, c) ==
    tc[c].quantity
        + SumOver({i \in DOMAIN ts : ts[i].cargo_id = c /\ ts[i].status = "loading"},
                  [i \in DOMAIN ts |-> ts[i].quantity])

\* C22: for every cargo row, quantity plus the quantities of its loading
\* shipments is the same after an accepted load and after an accepted
\* cancel_loading, and is smaller by the shipment's quantity after a loading
\* shipment is completed.
C22_Step ==
    LET a == resp'.args IN
    /\ (resp'.op \in {"load_cargo", "cancel_loading"} /\ resp'.code = 200) =>
            \A c \in DOMAIN cargo :
                /\ c \in DOMAIN cargo'
                /\ StockAndLoading(cargo', shipments', c) = StockAndLoading(cargo, shipments, c)
    /\ (/\ resp'.op = "update_shipment_status" /\ resp'.code = 200
        /\ a.new_status = "completed"
        /\ Exists(shipments, a.shipment_id)
        /\ shipments[a.shipment_id].status = "loading") =>
            \A c \in DOMAIN cargo :
                /\ c \in DOMAIN cargo'
                /\ StockAndLoading(cargo', shipments', c) =
                        StockAndLoading(cargo, shipments, c)
                            - (IF c = shipments[a.shipment_id].cargo_id
                               THEN shipments[a.shipment_id].quantity ELSE 0)

C22_StockAndLoadingConserved == [][C22_Step]_vars

\* the fourth request (after one create_starship, one create_cargo and one
\* load) cancelled the load: the stock is back and nothing is loading
C22_Witness ==
    /\ Did("cancel_loading", 200)
    /\ requests = 4
    /\ shipments[resp.args.shipment_id].status = "cancelled"
    /\ LET c == shipments[resp.args.shipment_id].cargo_id IN
        /\ cargo[c].quantity = 2
        /\ StockAndLoading(cargo, shipments, c) = 2

\* ------------------------------------------------------------------- C23
\* C23: update_shipment_status(loading) on an existing shipment is accepted
\* whatever the shipment's status is, and it changes that shipment's status
\* only: no cargo quantity, no starship status, and no limit is looked at.
C23_Step ==
    LET a == resp'.args IN
    (/\ resp'.op = "update_shipment_status"
     /\ a.new_status = "loading"
     /\ Exists(shipments, a.shipment_id)) =>
        /\ resp'.code = 200
        /\ cargo' = cargo
        /\ starships' = starships
        /\ shipments' = [shipments EXCEPT ![a.shipment_id].status = "loading"]

C23_BackToLoading == [][C23_Step]_vars

\* the fifth request, in the hour of the load, set a shipment that had been
\* completed or cancelled back to loading: its starship is still available
C23_Witness ==
    /\ Did("update_shipment_status", 200)
    /\ resp.args.new_status = "loading"
    /\ requests = 5
    /\ now = 0
    /\ shipments[resp.args.shipment_id].status = "loading"
    /\ starships[shipments[resp.args.shipment_id].starship_id].status = "available"

\* ------------------------------------------------------------------- C24
\* C24: a sweep leaves a loading starship loading when the starship has no
\* shipment row, or only rows older than the retention period (which that
\* sweep deletes); this holds for every sweep of a run.
C24_Step ==
    (resp'.op = "cleanup_old_data" /\ resp'.code = 0) =>
        \A s \in DOMAIN starships :
            (/\ starships[s].status = "loading"
             /\ \A i \in HistoryOfStarship(s) :
                    shipments[i].created_at < RetentionThreshold)
                => (s \in DOMAIN starships' /\ starships'[s].status = "loading")

C24_NoRowNoRelease == [][C24_Step]_vars

\* the fourth request (after one create_starship, one create_cargo and one
\* load) was a sweep that deleted the starship's only row and left it loading
C24_Witness ==
    /\ Did("cleanup_old_data", 0)
    /\ requests = 4
    /\ next_id.shipment = 2
    /\ DOMAIN shipments = {}
    /\ \E s \in DOMAIN starships : starships[s].status = "loading"

\* ------------------------------------------------------------------- C25
\* C25: a successful sweep deletes exactly the shipment rows older than the
\* retention period and leaves the other rows as they are, changes no cargo
\* row, and changes a starship only by setting a loading one to available.
C25_Step ==
    (resp'.op = "cleanup_old_data" /\ resp'.code = 0) =>
        /\ cargo' = cargo
        /\ DOMAIN shipments' =
                {i \in DOMAIN shipments : ~(shipments[i].created_at < RetentionThreshold)}
        /\ \A i \in DOMAIN shipments' : shipments'[i] = shipments[i]
        /\ DOMAIN starships' = DOMAIN starships
        /\ \A s \in DOMAIN starships :
                \/ starships'[s] = starships[s]
                \/ /\ starships[s].status = "loading"
                   /\ starships'[s] = [starships[s] EXCEPT !.status = "available"]

C25_SweepFrame == [][C25_Step]_vars

\* the fourth request (after one create_starship, one create_cargo and one
\* load) was a sweep that freed the starship: its shipment is still loading
\* and the stock is still reduced
C25_Witness ==
    /\ Did("cleanup_old_data", 0)
    /\ requests = 4
    /\ \E i \in DOMAIN shipments :
        /\ shipments[i].status = "loading"
        /\ starships[shipments[i].starship_id].status = "available"
        /\ cargo[shipments[i].cargo_id].quantity < 2

\* ------------------------------------------------------------------- C26
\* C26: with two load requests in flight, the commit of a request that passed
\* its checks succeeds and stores the quantity it read minus its own quantity,
\* whatever the other request has committed to that cargo row meanwhile.
C26_Step ==
    \A t \in DOMAIN txn :
        t \notin DOMAIN txn' =>
            /\ resp'.op = "load_cargo" /\ resp'.code = 200
            /\ cargo'[txn[t].cargo_id].quantity = txn[t].stock - txn[t].quantity
            /\ \A c \in DOMAIN cargo \ {txn[t].cargo_id} : cargo'[c] = cargo[c]

C26_LostDecrement == [][C26_Step]_vars

\* two loading shipments of one cargo on two starships, together more than
\* the stock of 2 both requests read, and the stored quantity is the stock
\* minus the last committed one only
C26_Witness ==
    /\ Did("load_cargo", 200)
    /\ \E i, j \in DOMAIN shipments :
        /\ i # j
        /\ shipments[i].status = "loading" /\ shipments[j].status = "loading"
        /\ shipments[i].cargo_id = resp.args.cargo_id
        /\ shipments[j].cargo_id = resp.args.cargo_id
        /\ shipments[i].starship_id # shipments[j].starship_id
        /\ shipments[j].starship_id = resp.args.starship_id
        /\ shipments[i].quantity + shipments[j].quantity > 2
        /\ cargo[resp.args.cargo_id].quantity = 2 - shipments[j].quantity

====
